---- MODULE Spec2Model ----
(***************************************************************************)
(* Model of the two fixture generators of the repository:                  *)
(*   src/create_test_xlsx.py  main(): openpyxl, else xlsxwriter, else CSV  *)
(*   src/test_data.py         create_test_excel(): pandas.ExcelWriter      *)
(*                                                                         *)
(* The state is the working directory (test_data.xlsx, test_data.csv), the *)
(* installed libraries, and the position of the running script.  One       *)
(* action models one statement (or one run of in-memory statements) of the *)
(* scripts.  The libraries are modelled by what their calls do to the      *)
(* in-memory workbook and to the output file.                              *)
(*                                                                         *)
(* Environment: an import statement raises ImportError exactly when the    *)
(* library is not installed (both libraries import all their modules when  *)
(* they are imported); a call that opens or writes the output file may     *)
(* fail (permission denied, disk full), which is written "OSError" and     *)
(* stands for any exception that is not an ImportError; in-memory calls do *)
(* not raise.  A file a library opens inside one call (wb.save,            *)
(* workbook.close) is that call's own and is released when the call ends.  *)
(* What the scripts print is not part of the state.                        *)
(***************************************************************************)
EXTENDS Naturals, Sequences, FiniteSets, TLC

VARIABLES
    avail,      \* which libraries the interpreter can import in this run
    fs,         \* the working directory: fs.xlsx, fs.csv
    script,     \* the script being run (or run last): "chain", "df", "none"
    pc,         \* the statement the run is at
    status,     \* "none", "running", "done" (exit 0), "crashed" (uncaught)
    wb,         \* the in-memory workbook under construction
    handles,    \* the output files currently open for writing
    attempts,   \* this run's writer calls, in call order, with their outcome
    k,          \* how many statements of the current with-block have run
    pre,        \* the working directory as it was when the run started
    written,    \* the files this run has created, truncated or written
    last        \* the run before this one: its script, outcome and result

vars == <<avail, fs, script, pc, status, wb, handles, attempts, k, pre, written, last>>

Libs == {"openpyxl", "xlsxwriter", "pandas"}

(***************************************************************************)
(* Cell values.  A cell holds a string or a number; numbers are kept by    *)
(* their decimal text so that every cell has one shape.                    *)
(***************************************************************************)
S(x) == [k |-> "s", v |-> x]
N(x) == [k |-> "n", v |-> x]
Blank == [k |-> "blank", v |-> ""]

(***************************************************************************)
(* Files.  A file is absent, holds a workbook (its sheets), holds text     *)
(* (its lines), is empty (just created or truncated), or holds something   *)
(* else.                                                                   *)
(***************************************************************************)
Absent == [kind |-> "absent", sheets |-> <<>>, lines |-> <<>>]
Empty == [kind |-> "empty", sheets |-> <<>>, lines |-> <<>>]
Junk == [kind |-> "other", sheets |-> <<>>, lines |-> <<"?">>]
StaleXlsx == [kind |-> "workbook", sheets |-> <<[name |-> "Old", rows |-> <<<<S("x")>>>>]>>, lines |-> <<>>]
StaleCsv == [kind |-> "text", sheets |-> <<>>, lines |-> <<"old">>]

\* open(path, 'w'): the file is created or truncated (src/create_test_xlsx.py:66)
OpenAppend(file) == IF file.kind = "text" THEN file ELSE Empty
OpenW(file) == Empty

\* f.write(line): the line is added at the end of the text file
FileWrite(file, line) == [file EXCEPT !.kind = "text", !.lines = Append(@, line)]

\* The archive behind wb.save(path) and workbook.close() is opened for
\* writing: an existing file is replaced, never read.
ZipOpenKeep(file) == IF file.kind = "workbook" THEN file ELSE Empty
ZipOpenW(file) == Empty

\* pd.ExcelWriter(path, engine='openpyxl'): mode defaults to 'w'
ExcelWriterOpenAppend(file) == IF file.kind = "workbook" THEN file ELSE Empty
ExcelWriterOpen(file) == Empty

\* The sheets of the in-memory workbook are written into the open archive.
WriteWorkbook(file, w) == [file EXCEPT !.kind = "workbook", !.sheets = @ \o w]

(***************************************************************************)
(* openpyxl, as create_with_openpyxl uses it.                              *)
(***************************************************************************)
\* Workbook(): a new workbook with one empty sheet, titled "Sheet"; wb.active is sheet 1
Workbook == <<[name |-> "Sheet", rows |-> <<>>]>>
\* ws.title = t
SetTitle(w, i, t) == [w EXCEPT ![i].name = t]
\* ws.append(row): the row goes below the last row of the sheet
AppendRow(w, i, row) == [w EXCEPT ![i].rows = Append(@, row)]
\* wb.create_sheet(t): a new empty sheet after the existing ones
CreateSheet(w, t) == Append(w, [name |-> t, rows |-> <<>>])

\* Lines 12-29 of create_with_openpyxl, up to wb.save
OpenpyxlWorkbook ==
    LET w0 == Workbook
        w1 == SetTitle(w0, 1, "Sheet1")
        w2 == AppendRow(w1, 1, <<S("Name"), S("Age"), S("City"), S("Salary")>>)
        w3 == AppendRow(w2, 1, <<S("John Doe"), N("25"), S("New York"), N("50000")>>)
        w4 == AppendRow(w3, 1, <<S("Jane Smith"), N("30"), S("Los Angeles"), N("60000")>>)
        w5 == AppendRow(w4, 1, <<S("Bob Johnson"), N("35"), S("Chicago"), N("70000")>>)
        w6 == CreateSheet(w5, "Products")
        w7 == AppendRow(w6, 2, <<S("Product"), S("Price"), S("Stock")>>)
        w8 == AppendRow(w7, 2, <<S("Laptop"), N("999.99"), N("10")>>)
        w9 == AppendRow(w8, 2, <<S("Mouse"), N("25.5"), N("50")>>)
    IN  AppendRow(w9, 2, <<S("Keyboard"), N("75"), N("25")>>)

(***************************************************************************)
(* xlsxwriter, as create_with_xlsxwriter uses it.                          *)
(***************************************************************************)
Max(a, b) == IF a >= b THEN a ELSE b
\* workbook.add_worksheet(t)
add_worksheet(w, t) == Append(w, [name |-> t, rows |-> <<>>])
\* The cells of `data` laid over row `old` from 0-based column col on
PutCells(old, col, data) ==
    [j \in 1..Max(Len(old), col + Len(data)) |->
        IF j > col /\ j <= col + Len(data) THEN data[j - col]
        ELSE IF j <= Len(old) THEN old[j] ELSE Blank]
\* worksheet.write_row(row, col, data): row and col are 0-based
RowsAfterWrite(rows, row, col, data) ==
    [r \in 1..Max(Len(rows), row + 1) |->
        IF r = row + 1 THEN PutCells(IF r <= Len(rows) THEN rows[r] ELSE <<>>, col, data)
        ELSE IF r <= Len(rows) THEN rows[r] ELSE <<>>]
write_row_1based(w, i, row, col, data) ==
    [w EXCEPT ![i].rows = RowsAfterWrite(@, row + 1, col, data)]
write_row(w, i, row, col, data) ==
    [w EXCEPT ![i].rows = RowsAfterWrite(@, row, col, data)]

\* Lines 42-56 of create_with_xlsxwriter, up to workbook.close
XlsxwriterWorkbook ==
    LET w0 == <<>>
        w1 == add_worksheet(w0, "Sheet1")
        w2 == write_row(w1, 1, 0, 0, <<S("Name"), S("Age"), S("City"), S("Salary")>>)
        w3 == write_row(w2, 1, 1, 0, <<S("John Doe"), N("25"), S("New York"), N("50000")>>)
        w4 == write_row(w3, 1, 2, 0, <<S("Jane Smith"), N("30"), S("Los Angeles"), N("60000")>>)
        w5 == write_row(w4, 1, 3, 0, <<S("Bob Johnson"), N("35"), S("Chicago"), N("70000")>>)
        w6 == add_worksheet(w5, "Products")
        w7 == write_row(w6, 2, 0, 0, <<S("Product"), S("Price"), S("Stock")>>)
        w8 == write_row(w7, 2, 1, 0, <<S("Laptop"), N("999.99"), N("10")>>)
        w9 == write_row(w8, 2, 2, 0, <<S("Mouse"), N("25.5"), N("50")>>)
    IN  write_row(w9, 2, 3, 0, <<S("Keyboard"), N("75"), N("25")>>)

(***************************************************************************)
(* The CSV fallback's lines, in the order create_csv_fallback writes them. *)
(***************************************************************************)
CsvLines ==
    << "Name,Age,City,Salary",
       "John Doe,25,New York,50000",
       "Jane Smith,30,Los Angeles,60000",
       "Bob Johnson,35,Chicago,70000" >>

(***************************************************************************)
(* pandas, as create_test_excel uses it.  A DataFrame built from a dict    *)
(* keeps the dict's key order as its column order; its index is 0, 1, ...  *)
(***************************************************************************)
sheet1_data ==
    << [col |-> "Name", vals |-> <<S("John Doe"), S("Jane Smith"), S("Bob Johnson")>>],
       [col |-> "Age", vals |-> <<N("25"), N("30"), N("35")>>],
       [col |-> "City", vals |-> <<S("New York"), S("Los Angeles"), S("Chicago")>>],
       [col |-> "Salary", vals |-> <<N("50000"), N("60000"), N("70000")>>] >>
sheet2_data ==
    << [col |-> "Product", vals |-> <<S("Laptop"), S("Mouse"), S("Keyboard")>>],
       [col |-> "Price", vals |-> <<N("999.99"), N("25.5"), N("75")>>],
       [col |-> "Stock", vals |-> <<N("10"), N("50"), N("25")>>] >>
sheet3_data ==
    << [col |-> "Date", vals |-> <<S("2024-01-01"), S("2024-01-02"), S("2024-01-03")>>],
       [col |-> "Sales", vals |-> <<N("1000"), N("1200"), N("800")>>],
       [col |-> "Profit", vals |-> <<N("200"), N("300"), N("150")>>] >>

IndexLabel == <<"0", "1", "2">>
NRows(df) == IF Len(df) = 0 THEN 0 ELSE Len(df[1].vals)
\* df.to_excel(writer, sheet_name=t, index=...): a header row of the column
\* names, then one row per record; with index=True a first column holds the
\* row labels under an empty header cell.
SheetOf(df, t, index) ==
    LET lead(c) == IF index THEN <<c>> ELSE <<>>
        header == lead(Blank) \o [j \in 1..Len(df) |-> S(df[j].col)]
        rec(i) == lead(N(IndexLabel[i])) \o [j \in 1..Len(df) |-> df[j].vals[i]]
    IN  [name |-> t, rows |-> <<header>> \o [i \in 1..NRows(df) |-> rec(i)]]
to_excel_default(w, df, t) == Append(w, SheetOf(df, t, TRUE))
to_excel(w, df, t) == Append(w, SheetOf(df, t, FALSE))

\* Lines 38-40 of create_test_excel: the three sheets, in call order
PandasSheets ==
    <<[df |-> sheet1_data, name |-> "Employees"],
      [df |-> sheet2_data, name |-> "Products"],
      [df |-> sheet3_data, name |-> "Sales"]>>

(***************************************************************************)
(* Control flow of main() and exception handling.                          *)
(***************************************************************************)
\* One call of a writer: how it ended, what was raised and where, and how
\* far it got before that.
NewAttempt(fn) ==
    [writer |-> fn, result |-> "running", exc |-> "none", at |-> "none",
     built |-> FALSE, wrote |-> FALSE]

Mark(atts, field, val) == [atts EXCEPT ![Len(atts)] = [@ EXCEPT ![field] = val]]

\* The except clauses around a writer's body: `except ImportError` in
\* create_with_openpyxl and create_with_xlsxwriter, none elsewhere.
HandlerBroad(fn) == IF fn \in {"openpyxl", "xlsxwriter"} THEN {"ImportError", "OSError"} ELSE {}
Handler(fn) == IF fn \in {"openpyxl", "xlsxwriter"} THEN {"ImportError"} ELSE {}

\* main(): where control goes when a writer returns ok (True/False).
\*   if create_with_openpyxl(): return
\*   if create_with_xlsxwriter(): return
\*   ...; create_csv_fallback()
MainNextNoReturn(fn, ok) ==
    CASE fn = "openpyxl" -> "xw_import"
      [] fn = "xlsxwriter" -> IF ok THEN "end" ELSE "csv_open"
      [] OTHER -> "end"
MainNextFallThrough(fn, ok) ==
    CASE fn = "openpyxl" -> IF ok THEN "end" ELSE "xw_import"
      [] fn = "xlsxwriter" -> "csv_open"
      [] OTHER -> "end"
MainNext(fn, ok) ==
    CASE fn = "openpyxl" -> IF ok THEN "end" ELSE "xw_import"
      [] fn = "xlsxwriter" -> IF ok THEN "end" ELSE "csv_open"
      [] OTHER -> "end"

\* An exception no except clause matches leaves main() (and create_test_excel):
\* neither has a try, so the interpreter exits with a traceback.
UncaughtContinues(fn) == [pc |-> MainNext(fn, FALSE), status |-> "running"]
Uncaught(fn) == [pc |-> "end", status |-> "crashed"]

\* Exception e is raised in writer fn by an import ("import") or a library
\* call ("call"); atts is the attempt log with this call's entry last.
Raise(atts, fn, e, where) ==
    LET caught == e \in Handler(fn)
        out == Uncaught(fn)
        a1 == Mark(Mark(atts, "exc", e), "at", where)
    IN  /\ attempts' = Mark(a1, "result", IF caught THEN "False" ELSE "raised")
        /\ pc' = IF caught THEN MainNext(fn, FALSE) ELSE out.pc
        /\ status' = IF caught THEN "running" ELSE out.status
        /\ wb' = <<>>

\* The writer returns (True, or None for the CSV fallback and the dataframe script).
Return(fn, res) ==
    /\ attempts' = Mark(attempts, "result", res)
    /\ pc' = MainNext(fn, TRUE)
    /\ status' = IF MainNext(fn, TRUE) = "end" THEN "done" ELSE "running"
    /\ wb' = <<>>

\* Leaving a with-block by an exception runs its __exit__, which closes the file.
WithExitLeak(hs, h) == hs
WithExit(hs, h) == hs \ {h}

\* Errors a call that opens or writes the output file can raise.
IOErrors == {"OSError"}

(***************************************************************************)
(* Initial state: no run yet; the directory holds no output, a stale one,  *)
(* or something else under the output's name.                              *)
(***************************************************************************)
NoRun == [script |-> "none", status |-> "none", avail |-> [l \in Libs |-> FALSE],
          fs |-> [xlsx |-> Absent, csv |-> Absent]]

Init ==
    /\ avail \in [Libs -> BOOLEAN]
    /\ fs \in [xlsx : {Absent, Junk, StaleXlsx}, csv : {Absent, StaleCsv}]
    /\ script = "none"
    /\ pc = "idle"
    /\ status = "none"
    /\ wb = <<>>
    /\ handles = {}
    /\ attempts = <<>>
    /\ k = 0
    /\ pre = fs
    /\ written = {}
    /\ last = NoRun

\* The interpreter starts a script: the installed libraries are whatever the
\* environment holds now, and the run before becomes `last`.
Start(s, first) ==
    /\ pc \in {"idle", "end"}
    /\ \E a \in [Libs -> BOOLEAN] : avail' = a
    /\ last' = [script |-> script, status |-> status, avail |-> avail, fs |-> fs]
    /\ script' = s
    /\ pc' = first
    /\ status' = "running"
    /\ attempts' = <<>>
    /\ k' = 0
    /\ pre' = fs
    /\ written' = {}
    /\ wb' = <<>>
    /\ UNCHANGED <<fs, handles>>

(***************************************************************************)
(* src/create_test_xlsx.py                                                 *)
(***************************************************************************)
\* main(), lines 75-78: print, then call create_with_openpyxl()
main == Start("chain", "opx_import")

\* line 10: from openpyxl import Workbook
create_with_openpyxl_import ==
    /\ pc = "opx_import"
    /\ LET atts == Append(attempts, NewAttempt("openpyxl"))
       IN  \/ /\ avail["openpyxl"]
              /\ attempts' = atts
              /\ pc' = "opx_build"
              /\ UNCHANGED <<status, wb>>
           \/ /\ ~avail["openpyxl"]
              /\ Raise(atts, "openpyxl", "ImportError", "import")
    /\ UNCHANGED <<avail, fs, script, handles, k, pre, written, last>>

\* lines 12-29: the workbook is built in memory
create_with_openpyxl_build ==
    /\ pc = "opx_build"
    /\ wb' = OpenpyxlWorkbook
    /\ attempts' = Mark(attempts, "built", TRUE)
    /\ pc' = "opx_save"
    /\ UNCHANGED <<avail, fs, script, status, handles, k, pre, written, last>>

\* line 31, wb.save('test_data.xlsx'): the archive is opened for writing
create_with_openpyxl_save_open ==
    /\ pc = "opx_save"
    /\ \/ /\ fs' = [fs EXCEPT !.xlsx = ZipOpenW(@)]
          /\ handles' = handles \cup {"xlsx"}
          /\ written' = written \cup {"xlsx"}
          /\ attempts' = Mark(attempts, "wrote", TRUE)
          /\ pc' = "opx_saving"
          /\ UNCHANGED <<status, wb>>
       \/ /\ \E e \in IOErrors : Raise(attempts, "openpyxl", e, "call")
          /\ UNCHANGED <<fs, handles, written>>
    /\ UNCHANGED <<avail, script, k, pre, last>>

\* line 31, continued: the sheets are written and the archive is closed
create_with_openpyxl_save_write ==
    /\ pc = "opx_saving"
    /\ \/ /\ fs' = [fs EXCEPT !.xlsx = WriteWorkbook(@, wb)]
          /\ pc' = "opx_ret"
          /\ UNCHANGED <<status, wb, attempts>>
       \/ /\ \E e \in IOErrors : Raise(attempts, "openpyxl", e, "call")
          /\ UNCHANGED fs
    /\ handles' = handles \ {"xlsx"}
    /\ UNCHANGED <<avail, script, k, pre, written, last>>

\* lines 32-33: print, return True
create_with_openpyxl_return ==
    /\ pc = "opx_ret"
    /\ Return("openpyxl", "True")
    /\ UNCHANGED <<avail, fs, script, handles, k, pre, written, last>>

\* line 40: import xlsxwriter
create_with_xlsxwriter_import ==
    /\ pc = "xw_import"
    /\ LET atts == Append(attempts, NewAttempt("xlsxwriter"))
       IN  \/ /\ avail["xlsxwriter"]
              /\ attempts' = atts
              /\ pc' = "xw_build"
              /\ UNCHANGED <<status, wb>>
           \/ /\ ~avail["xlsxwriter"]
              /\ Raise(atts, "xlsxwriter", "ImportError", "import")
    /\ UNCHANGED <<avail, fs, script, handles, k, pre, written, last>>

\* lines 42-56: Workbook('test_data.xlsx') records the path; the sheets are
\* built in memory.  The file is not touched before close().
create_with_xlsxwriter_build ==
    /\ pc = "xw_build"
    /\ wb' = XlsxwriterWorkbook
    /\ attempts' = Mark(attempts, "built", TRUE)
    /\ pc' = "xw_close"
    /\ UNCHANGED <<avail, fs, script, status, handles, k, pre, written, last>>

\* line 58, workbook.close(): the archive is opened for writing
create_with_xlsxwriter_close_open ==
    /\ pc = "xw_close"
    /\ \/ /\ fs' = [fs EXCEPT !.xlsx = ZipOpenW(@)]
          /\ handles' = handles \cup {"xlsx"}
          /\ written' = written \cup {"xlsx"}
          /\ attempts' = Mark(attempts, "wrote", TRUE)
          /\ pc' = "xw_closing"
          /\ UNCHANGED <<status, wb>>
       \/ /\ \E e \in IOErrors : Raise(attempts, "xlsxwriter", e, "call")
          /\ UNCHANGED <<fs, handles, written>>
    /\ UNCHANGED <<avail, script, k, pre, last>>

\* line 58, continued: the sheets are written and the archive is closed
create_with_xlsxwriter_close_write ==
    /\ pc = "xw_closing"
    /\ \/ /\ fs' = [fs EXCEPT !.xlsx = WriteWorkbook(@, wb)]
          /\ pc' = "xw_ret"
          /\ UNCHANGED <<status, wb, attempts>>
       \/ /\ \E e \in IOErrors : Raise(attempts, "xlsxwriter", e, "call")
          /\ UNCHANGED fs
    /\ handles' = handles \ {"xlsx"}
    /\ UNCHANGED <<avail, script, k, pre, written, last>>

\* lines 59-60: print, return True
create_with_xlsxwriter_return ==
    /\ pc = "xw_ret"
    /\ Return("xlsxwriter", "True")
    /\ UNCHANGED <<avail, fs, script, handles, k, pre, written, last>>

\* main() lines 84-87 and create_csv_fallback line 66: with open('test_data.csv', 'w') as f
create_csv_fallback_open ==
    /\ pc = "csv_open"
    /\ LET atts == Append(attempts, NewAttempt("csv"))
       IN  \/ /\ fs' = [fs EXCEPT !.csv = OpenW(@)]
              /\ handles' = handles \cup {"csv"}
              /\ written' = written \cup {"csv"}
              /\ attempts' = Mark(atts, "wrote", TRUE)
              /\ pc' = "csv_write"
              /\ UNCHANGED <<status, wb>>
           \/ /\ \E e \in IOErrors : Raise(atts, "csv", e, "call")
              /\ UNCHANGED <<fs, handles, written>>
    /\ UNCHANGED <<avail, script, k, pre, last>>

\* lines 67-70: the next f.write(...) of the four
create_csv_fallback_write ==
    /\ pc = "csv_write"
    /\ k < Len(CsvLines)
    /\ \/ /\ fs' = [fs EXCEPT !.csv = FileWrite(@, CsvLines[k + 1])]
          /\ k' = k + 1
          /\ UNCHANGED <<pc, status, wb, attempts, handles>>
       \/ /\ \E e \in IOErrors : Raise(attempts, "csv", e, "call")
          /\ handles' = WithExit(handles, "csv")
          /\ UNCHANGED <<fs, k>>
    /\ UNCHANGED <<avail, script, pre, written, last>>

\* the with-block ends (the file is closed); lines 72-73: print, return
create_csv_fallback_return ==
    /\ pc = "csv_write"
    /\ k = Len(CsvLines)
    /\ handles' = WithExit(handles, "csv")
    /\ Return("csv", "None")
    /\ UNCHANGED <<avail, fs, script, k, pre, written, last>>

(***************************************************************************)
(* src/test_data.py                                                        *)
(***************************************************************************)
\* the script is started; line 5: import pandas as pd
create_test_excel_start == Start("df", "df_import")

create_test_excel_import ==
    /\ pc = "df_import"
    /\ LET atts == Append(attempts, NewAttempt("pandas"))
       IN  \/ /\ avail["pandas"]
              /\ attempts' = atts
              /\ pc' = "df_open"
              /\ UNCHANGED <<status, wb>>
           \/ /\ ~avail["pandas"]
              /\ Raise(atts, "pandas", "ImportError", "import")
    /\ UNCHANGED <<avail, fs, script, handles, k, pre, written, last>>

\* lines 12-37: the frames are built; pd.ExcelWriter('test_data.xlsx',
\* engine='openpyxl') imports the engine and opens the file for writing
create_test_excel_open ==
    /\ pc = "df_open"
    /\ \/ /\ avail["openpyxl"]
          /\ fs' = [fs EXCEPT !.xlsx = ExcelWriterOpen(@)]
          /\ handles' = handles \cup {"xlsx"}
          /\ written' = written \cup {"xlsx"}
          /\ attempts' = Mark(Mark(attempts, "built", TRUE), "wrote", TRUE)
          /\ pc' = "df_sheets"
          /\ UNCHANGED <<status, wb>>
       \/ /\ ~avail["openpyxl"]
          /\ Raise(attempts, "pandas", "ImportError", "call")
          /\ UNCHANGED <<fs, handles, written>>
       \/ /\ avail["openpyxl"]
          /\ \E e \in IOErrors : Raise(attempts, "pandas", e, "call")
          /\ UNCHANGED <<fs, handles, written>>
    /\ UNCHANGED <<avail, script, k, pre, last>>

\* lines 38-40: the next df.to_excel(writer, sheet_name=..., index=False)
create_test_excel_to_excel ==
    /\ pc = "df_sheets"
    /\ k < Len(PandasSheets)
    /\ LET nxt == PandasSheets[k + 1]
       IN  wb' = to_excel(wb, nxt.df, nxt.name)
    /\ k' = k + 1
    /\ UNCHANGED <<avail, fs, script, pc, status, handles, attempts, pre, written, last>>

\* the with-block ends: the workbook is saved and the file closed;
\* lines 42-45: print
create_test_excel_exit ==
    /\ pc = "df_sheets"
    /\ k = Len(PandasSheets)
    /\ \/ /\ fs' = [fs EXCEPT !.xlsx = WriteWorkbook(@, wb)]
          /\ Return("pandas", "None")
       \/ /\ \E e \in IOErrors : Raise(attempts, "pandas", e, "call")
          /\ UNCHANGED fs
    /\ handles' = WithExit(handles, "xlsx")
    /\ UNCHANGED <<avail, script, k, pre, written, last>>

Next ==
    \/ main
    \/ create_with_openpyxl_import
    \/ create_with_openpyxl_build
    \/ create_with_openpyxl_save_open
    \/ create_with_openpyxl_save_write
    \/ create_with_openpyxl_return
    \/ create_with_xlsxwriter_import
    \/ create_with_xlsxwriter_build
    \/ create_with_xlsxwriter_close_open
    \/ create_with_xlsxwriter_close_write
    \/ create_with_xlsxwriter_return
    \/ create_csv_fallback_open
    \/ create_csv_fallback_write
    \/ create_csv_fallback_return
    \/ create_test_excel_start
    \/ create_test_excel_import
    \/ create_test_excel_open
    \/ create_test_excel_to_excel
    \/ create_test_excel_exit

Spec == Init /\ [][Next]_vars

(***************************************************************************)
(* The documented outputs, written out cell by cell.                       *)
(***************************************************************************)
ExpectedChainWorkbook ==
    [kind |-> "workbook", lines |-> <<>>, sheets |->
      << [name |-> "Sheet1", rows |->
           << <<S("Name"), S("Age"), S("City"), S("Salary")>>,
              <<S("John Doe"), N("25"), S("New York"), N("50000")>>,
              <<S("Jane Smith"), N("30"), S("Los Angeles"), N("60000")>>,
              <<S("Bob Johnson"), N("35"), S("Chicago"), N("70000")>> >>],
         [name |-> "Products", rows |->
           << <<S("Product"), S("Price"), S("Stock")>>,
              <<S("Laptop"), N("999.99"), N("10")>>,
              <<S("Mouse"), N("25.5"), N("50")>>,
              <<S("Keyboard"), N("75"), N("25")>> >>] >>]

ExpectedDfWorkbook ==
    [kind |-> "workbook", lines |-> <<>>, sheets |->
      << [name |-> "Employees", rows |->
           << <<S("Name"), S("Age"), S("City"), S("Salary")>>,
              <<S("John Doe"), N("25"), S("New York"), N("50000")>>,
              <<S("Jane Smith"), N("30"), S("Los Angeles"), N("60000")>>,
              <<S("Bob Johnson"), N("35"), S("Chicago"), N("70000")>> >>],
         [name |-> "Products", rows |->
           << <<S("Product"), S("Price"), S("Stock")>>,
              <<S("Laptop"), N("999.99"), N("10")>>,
              <<S("Mouse"), N("25.5"), N("50")>>,
              <<S("Keyboard"), N("75"), N("25")>> >>],
         [name |-> "Sales", rows |->
           << <<S("Date"), S("Sales"), S("Profit")>>,
              <<S("2024-01-01"), N("1000"), N("200")>>,
              <<S("2024-01-02"), N("1200"), N("300")>>,
              <<S("2024-01-03"), N("800"), N("150")>> >>] >>]

ExpectedCsv ==
    [kind |-> "text", sheets |-> <<>>, lines |->
      << "Name,Age,City,Salary",
         "John Doe,25,New York,50000",
         "Jane Smith,30,Los Angeles,60000",
         "Bob Johnson,35,Chicago,70000" >>]

ChainDone == script = "chain" /\ status = "done"
DfDone == script = "df" /\ status = "done"
HasWorkbookLib(a) == a["openpyxl"] \/ a["xlsxwriter"]
ChainOrder == <<"openpyxl", "xlsxwriter", "csv">>

(***************************************************************************)
(* C1.  In every run of main() the writers are called in the order         *)
(* openpyxl, xlsxwriter, CSV; each one after the first is called only      *)
(* after the one before it returned False; so none is called twice and     *)
(* none is called after one succeeded.                                     *)
(***************************************************************************)
C1_FallbackOrder ==
    script = "chain" =>
        /\ Len(attempts) <= Len(ChainOrder)
        /\ \A i \in 1..Len(attempts) :
              /\ attempts[i].writer = ChainOrder[i]
              /\ i > 1 => attempts[i - 1].result = "False"

C1_Witness ==
    /\ ChainDone
    /\ Len(attempts) = 3
    /\ attempts[3].result = "None"

(***************************************************************************)
(* C2.  A run of main() that completes with openpyxl or xlsxwriter         *)
(* installed leaves test_data.xlsx holding exactly the sheets Sheet1 and   *)
(* Products, in that order, with the documented header and three rows      *)
(* each; the content does not depend on which library wrote it.            *)
(***************************************************************************)
C2_TwoSheetWorkbook ==
    (ChainDone /\ HasWorkbookLib(avail)) => fs.xlsx = ExpectedChainWorkbook

C2_Witness ==
    /\ ChainDone
    /\ Len(attempts) = 2
    /\ attempts[2].writer = "xlsxwriter"
    /\ attempts[2].result = "True"
    /\ pre.xlsx = StaleXlsx
    /\ fs.xlsx = ExpectedChainWorkbook

(***************************************************************************)
(* C3.  A run of main() that completes with neither library installed      *)
(* leaves test_data.csv holding exactly four lines: the header and the     *)
(* three employee rows, in order, whatever the file held before.           *)
(***************************************************************************)
C3_CsvFallback ==
    (ChainDone /\ ~HasWorkbookLib(avail)) => fs.csv = ExpectedCsv

C3_Witness ==
    /\ ChainDone
    /\ ~HasWorkbookLib(avail)
    /\ pre.csv = StaleCsv
    /\ fs.csv = ExpectedCsv

(***************************************************************************)
(* C4.  A run of create_test_excel() that completes leaves test_data.xlsx  *)
(* holding exactly the sheets Employees, Products, Sales, in that order,   *)
(* each a header row of its column names and three data rows, with no      *)
(* index column.                                                           *)
(***************************************************************************)
C4_ThreeSheetWorkbook ==
    DfDone => fs.xlsx = ExpectedDfWorkbook

C4_Witness ==
    /\ DfDone
    /\ pre.xlsx = StaleXlsx
    /\ Len(fs.xlsx.sheets) = 3
    /\ Len(fs.xlsx.sheets[1].rows[1]) = 4

(***************************************************************************)
(* C5.  Running a script twice in a row with the same libraries installed  *)
(* leaves the directory as the first run left it: the second run replaces  *)
(* the output, it does not add to it.                                      *)
(***************************************************************************)
C5_Idempotent ==
    (/\ status = "done"
     /\ last.status = "done"
     /\ last.script = script
     /\ last.avail = avail) => fs = last.fs

C5_Witness ==
    /\ ChainDone
    /\ last.status = "done"
    /\ last.script = "chain"
    /\ last.avail = avail
    /\ written = {"xlsx"}
    /\ fs.xlsx = ExpectedChainWorkbook

(***************************************************************************)
(* C6.  In main(), an error raised by a library call (not by an import     *)
(* of a missing library) is not caught: the run ends there as an uncaught  *)
(* failure and no later writer is called.                                  *)
(***************************************************************************)
C6_OtherErrorsPropagate ==
    script = "chain" =>
        \A i \in 1..Len(attempts) :
            attempts[i].at = "call" =>
                /\ i = Len(attempts)
                /\ attempts[i].result = "raised"
                /\ status = "crashed"
                /\ pc = "end"

C6_Witness ==
    /\ script = "chain"
    /\ status = "crashed"
    /\ Len(attempts) = 1
    /\ attempts[1].writer = "openpyxl"
    /\ attempts[1].at = "call"
    /\ attempts[1].wrote
    /\ avail["xlsxwriter"]

(***************************************************************************)
(* C7.  A writer of main() returns False only because the import of its    *)
(* library failed: the library is not installed, no workbook was built     *)
(* and the writer has not touched the output file; an error of a later     *)
(* call never ends in False.                                               *)
(***************************************************************************)
C7_FalseOnlyAtImport ==
    script = "chain" =>
        \A i \in 1..Len(attempts) :
            attempts[i].result = "False" =>
                /\ attempts[i].at = "import"
                /\ attempts[i].exc = "ImportError"
                /\ ~avail[attempts[i].writer]
                /\ ~attempts[i].built
                /\ ~attempts[i].wrote

C7_Witness ==
    /\ script = "chain"
    /\ Len(attempts) = 2
    /\ attempts[1].result = "False"
    /\ attempts[2].at = "call"
    /\ attempts[2].result = "raised"

C9_OneFileWritten ==
    ChainDone =>
        \/ written = {"xlsx"} /\ fs.csv = pre.csv
        \/ written = {"csv"} /\ fs.xlsx = pre.xlsx

C9_Witness ==
    /\ ChainDone
    /\ written = {"csv"}
    /\ pre.xlsx = StaleXlsx
    /\ fs.xlsx = StaleXlsx

(***************************************************************************)
(* C10.  When a completed run of one script follows a completed run of     *)
(* the other (each with a workbook library installed), test_data.xlsx is   *)
(* the workbook of the script that ran last: none of the earlier run's     *)
(* sheets is left.                                                         *)
(***************************************************************************)
C10_LastRunWins ==
    (/\ status = "done"
     /\ last.status = "done"
     /\ last.script \notin {script, "none"}
     /\ last.fs.xlsx.kind = "workbook"
     /\ script = "chain" => HasWorkbookLib(avail)) =>
        fs.xlsx = IF script = "chain" THEN ExpectedChainWorkbook ELSE ExpectedDfWorkbook

C10_Witness ==
    /\ DfDone
    /\ last.status = "done"
    /\ last.script = "chain"
    /\ last.fs.xlsx = ExpectedChainWorkbook
    /\ fs.xlsx = ExpectedDfWorkbook

====
